---- MODULE Spec2Model ----
(***************************************************************************)
(* A model of src/recorder.py: the frame helpers ecef2lla and              *)
(* rbd_translate, and the Recorder class (record, get_positions,           *)
(* get_attitude, get_measured_attitude, get_measured_positions).           *)
(*                                                                         *)
(* Vectors are triples of integers and a scipy Rotation is its 3x3         *)
(* direction cosine matrix with integer entries (quarter turns), so that   *)
(* apply, its inverse and composition are computed exactly.                *)
(***************************************************************************)
EXTENDS Integers, Sequences, FiniteSets, TLC

VARIABLES
    \* ---- the reader and the pose integration (get_measured_*) ----
    times,          \* reader.get_timestamps(0, inf)
    gps_pos0,       \* reader.get_gps_pos(0)
    gps_att0,       \* reader.get_gps_att(0)
    aligned,        \* what image_transformation_from has returned, per pair of timestamps
    pc,             \* where the running get_measured_* call is
    i,              \* the loop index of the running call
    measured_pos,   \* local list of get_measured_positions
    measured_att,   \* local list of get_measured_attitude / get_measured_positions
    ncalls,         \* calls of image_transformation_from made by the running call
    ret_att,        \* what get_measured_attitude last returned
    ret_pos,        \* what get_measured_positions last returned
    \* ---- the recorder's store and the live estimator ----
    objs,           \* heap: Kalman objects, each a record of references to its fields
    arrs,           \* heap: the mutable field values (arrays, Rotation) by reference
    kalman_record,  \* self.kalman_record: a dict, as its items in dict order
    positions_out,  \* what get_positions returned since the last record, if called
    attitude_out,   \* what get_attitude returned since the last record, if called
    written,        \* history: the estimator's values at the last record of each timestamp
    first_seen,     \* history: the timestamps in the order each was first recorded
    nmut,           \* history: how many times the live estimator was mutated
    \* ---- rbd_translate ----
    rbd_in,         \* the arguments of rbd_translate
    rbd_out,        \* its return value
    \* ---- ecef2lla ----
    lla_in,         \* the argument of ecef2lla
    lla_out         \* its return value, or the exception it raised

intVars == <<times, gps_pos0, gps_att0, aligned, pc, i, measured_pos, measured_att,
             ncalls, ret_att, ret_pos>>
recVars == <<objs, arrs, kalman_record, positions_out, attitude_out,
             written, first_seen, nmut>>
rbdVars == <<rbd_in, rbd_out>>
llaVars == <<lla_in, lla_out>>
vars == <<intVars, recVars, rbdVars, llaVars>>

\* No argument: the component is at rest.
None == "None"

\* The result of a call: not made yet, returned with a value, or raised.
Pending == [state |-> "pending"]
Returned(v) == [state |-> "returned", value |-> v]
Raised(e) == [state |-> "raised", error |-> e]

(***************************************************************************)
(* Bounds of the model.                                                    *)
(***************************************************************************)
\* Longest timestamp sequence the reader holds.
MaxN == 3
\* Timestamps are 0..MaxT.
MaxT == 2
\* Most record calls in a run.
MaxRecords == 3
\* Recorded timestamps are 1..MaxKey.
MaxKey == 3
\* Most mutations of the live estimator in a run.
MaxMutations == 1
\* Longest batch handed to rbd_translate.
MaxLen == 2
\* Longest vector (widest row) handed to ecef2lla.
MaxDim == 4
\* Most rows of a batch handed to ecef2lla.
MaxRows == 1

(***************************************************************************)
(* Vectors and rotations (numpy arrays of 3 components, scipy Rotation).   *)
(***************************************************************************)
VecAdd(a, b) == <<a[1] + b[1], a[2] + b[2], a[3] + b[3]>>
VecSub(a, b) == <<a[1] - b[1], a[2] - b[2], a[3] - b[3]>>

MatVec(m, v) == <<m[1][1] * v[1] + m[1][2] * v[2] + m[1][3] * v[3],
                  m[2][1] * v[1] + m[2][2] * v[2] + m[2][3] * v[3],
                  m[3][1] * v[1] + m[3][2] * v[2] + m[3][3] * v[3]>>

Transpose(m) == <<<<m[1][1], m[2][1], m[3][1]>>,
                  <<m[1][2], m[2][2], m[3][2]>>,
                  <<m[1][3], m[2][3], m[3][3]>>>>

MatMul(a, b) ==
    LET e(r, c) == a[r][1] * b[1][c] + a[r][2] * b[2][c] + a[r][3] * b[3][c]
    IN  <<<<e(1, 1), e(1, 2), e(1, 3)>>,
          <<e(2, 1), e(2, 2), e(2, 3)>>,
          <<e(3, 1), e(3, 2), e(3, 3)>>>>

\* Rotation.apply(v, inverse): the matrix, or its transpose, times v.
RotApply(r, v, inverse) == IF inverse THEN MatVec(Transpose(r), v) ELSE MatVec(r, v)

\* p * q of two Rotations: q first, then p; its matrix is the product P.Q.
RotMul(p, q) == MatMul(p, q)

RotId == <<<<1, 0, 0>>, <<0, 1, 0>>, <<0, 0, 1>>>>
\* A quarter turn about z, and one about x: they do not commute.
RotZ == <<<<0, -1, 0>>, <<1, 0, 0>>, <<0, 0, 1>>>>
RotX == <<<<1, 0, 0>>, <<0, 0, -1>>, <<0, 1, 0>>>>

Zero3 == <<0, 0, 0>>

Last(s) == s[Len(s)]

SeqsUpTo(S, n) == UNION {[1..k -> S] : k \in 0..n}

(***************************************************************************)
(* The pose integration: get_measured_attitude and get_measured_positions. *)
(* The reader and the frame aligner are collaborators: the reader's data   *)
(* is drawn in Init, and the aligner's answer for a pair of frames is      *)
(* drawn the first time the pair is aligned and is the same ever after.    *)
(***************************************************************************)
Timestamps == 0..MaxT
SeedPositions == {<<5, 0, 0>>}
SeedAttitudes == {RotId, RotX}
\* What image_transformation_from may return: (translation, rotation).
Transformations == {<<<<1, 0, 0>>, RotZ>>, <<<<0, 1, 0>>, RotX>>, <<<<1, 0, 0>>, RotId>>}

\* The pair of frames aligned at loop index k (0-based, as in the code):
\* get_radardata(times[k]).image_transformation_from(get_radardata(times[k-1])).
PairAt(k) == <<times[k + 1], times[k]>>

\* The aligner's answers consistent with what it has answered before.
AlignerAnswers(pair) ==
    IF pair \in DOMAIN aligned THEN {aligned[pair]} ELSE Transformations

Remember(pair, tr) ==
    IF pair \in DOMAIN aligned THEN aligned
    ELSE [p \in DOMAIN aligned \cup {pair} |-> IF p = pair THEN tr ELSE aligned[p]]

\* No get_measured_* call is running: one may be made.
Callable == {"idle", "att_done", "pos_done"}

\* Line 155-156: measured_att = [get_gps_att(0)]; times = get_timestamps(0, inf).
CallMeasuredAttitude ==
    /\ pc \in Callable
    /\ pc' = "att_loop"
    /\ i' = 1
    /\ measured_att' = <<gps_att0>>
    /\ measured_pos' = <<>>
    /\ ncalls' = 0
    /\ ret_att' = Pending
    /\ UNCHANGED <<times, gps_pos0, gps_att0, aligned, ret_pos>>
    /\ UNCHANGED <<recVars, rbdVars, llaVars>>

\* The increment composed on the left (not what the code does).
NextAttitudeLeft(att, rotation) == RotMul(rotation, att)

\* The attitude appended at line 159 and line 170: measured_att[-1] * rotation.
NextAttitude(att, rotation) == RotMul(att, rotation)

\* Lines 157-159: one iteration of the loop of get_measured_attitude.
AttitudeLoopStep ==
    /\ pc = "att_loop"
    /\ i < Len(times)
    /\ \E tr \in AlignerAnswers(PairAt(i)) :
          /\ aligned' = Remember(PairAt(i), tr)
          /\ measured_att' = Append(measured_att, NextAttitude(Last(measured_att), tr[2]))
    /\ ncalls' = ncalls + 1
    /\ i' = i + 1
    /\ UNCHANGED <<times, gps_pos0, gps_att0, pc, measured_pos, ret_att, ret_pos>>
    /\ UNCHANGED <<recVars, rbdVars, llaVars>>

\* Line 160: return np.ravel(measured_att), a flat array of the Rotations.
AttitudeReturn ==
    /\ pc = "att_loop"
    /\ i >= Len(times)
    /\ ret_att' = Returned(measured_att)
    /\ pc' = "att_done"
    /\ UNCHANGED <<times, gps_pos0, gps_att0, aligned, i, measured_pos, measured_att,
                   ncalls, ret_pos>>
    /\ UNCHANGED <<recVars, rbdVars, llaVars>>

\* get_measured_positions started from the origin, not from the reader's first
\* position (not what the code does).
CallMeasuredPositionsUnseeded ==
    /\ pc \in Callable
    /\ pc' = "pos_loop"
    /\ i' = 1
    /\ measured_pos' = <<Zero3>>
    /\ measured_att' = <<gps_att0>>
    /\ ncalls' = 0
    /\ ret_pos' = Pending
    /\ UNCHANGED <<times, gps_pos0, gps_att0, aligned, ret_att>>
    /\ UNCHANGED <<recVars, rbdVars, llaVars>>

\* Lines 164-166: the seeds of get_measured_positions.
CallMeasuredPositions ==
    /\ pc \in Callable
    /\ pc' = "pos_loop"
    /\ i' = 1
    /\ measured_pos' = <<gps_pos0>>
    /\ measured_att' = <<gps_att0>>
    /\ ncalls' = 0
    /\ ret_pos' = Pending
    /\ UNCHANGED <<times, gps_pos0, gps_att0, aligned, ret_att>>
    /\ UNCHANGED <<recVars, rbdVars, llaVars>>

\* The translation rotated by the attitude itself, not by its inverse (not what
\* the code does).
NextPositionForward(pos, att, translation) == VecAdd(pos, RotApply(att, translation, FALSE))

\* The position appended at line 169:
\* measured_pos[-1] + measured_att[-1].apply(translation, True).
NextPosition(pos, att, translation) == VecAdd(pos, RotApply(att, translation, TRUE))

\* Lines 167-170: one iteration of the loop of get_measured_positions. The
\* position is appended before the attitude, so it uses the previous attitude.
PositionLoopStep ==
    /\ pc = "pos_loop"
    /\ i < Len(times)
    /\ \E tr \in AlignerAnswers(PairAt(i)) :
          /\ aligned' = Remember(PairAt(i), tr)
          /\ measured_pos' = Append(measured_pos,
                                NextPosition(Last(measured_pos), Last(measured_att), tr[1]))
          /\ measured_att' = Append(measured_att, NextAttitude(Last(measured_att), tr[2]))
    /\ ncalls' = ncalls + 1
    /\ i' = i + 1
    /\ UNCHANGED <<times, gps_pos0, gps_att0, pc, ret_att, ret_pos>>
    /\ UNCHANGED <<recVars, rbdVars, llaVars>>

StrictlyIncreasing(t) == \A k \in 1..(Len(t) - 1) : t[k] < t[k + 1]

\* get_measured_positions refusing timestamps out of order (not what the code
\* does: it has no such check).
PositionReturnChecked ==
    /\ pc = "pos_loop"
    /\ i >= Len(times)
    /\ ret_pos' = IF StrictlyIncreasing(times) THEN Returned(measured_pos)
                  ELSE Raised("Ordering")
    /\ pc' = "pos_done"
    /\ UNCHANGED <<times, gps_pos0, gps_att0, aligned, i, measured_pos, measured_att,
                   ncalls, ret_att>>
    /\ UNCHANGED <<recVars, rbdVars, llaVars>>

\* Line 171: return np.array(measured_pos).
PositionReturn ==
    /\ pc = "pos_loop"
    /\ i >= Len(times)
    /\ ret_pos' = Returned(measured_pos)
    /\ pc' = "pos_done"
    /\ UNCHANGED <<times, gps_pos0, gps_att0, aligned, i, measured_pos, measured_att,
                   ncalls, ret_att>>
    /\ UNCHANGED <<recVars, rbdVars, llaVars>>

NextIntegrator ==
    \/ CallMeasuredAttitude
    \/ AttitudeLoopStep
    \/ AttitudeReturn
    \/ CallMeasuredPositions
    \/ PositionLoopStep
    \/ PositionReturn

(***************************************************************************)
(* The recorder's store. Python objects are mutable and held by reference, *)
(* so the Kalman objects and their field values live in two heaps: objs    *)
(* maps a reference to a Kalman object's fields (each a reference into     *)
(* arrs), and arrs maps a reference to the value held there. A reference   *)
(* is an index into the heap.                                              *)
(***************************************************************************)
Fields == {"position", "attitude", "innovation"}
Keys == 1..MaxKey

\* self.kalman: the live estimator, built before the recorder.
KalmanRef == 1

\* The values the estimator's fields may take.
FieldValues ==
    [position |-> {<<1, 0, 0>>, <<2, 0, 0>>},
     attitude |-> {RotId, RotZ},
     innovation |-> {0, 1}]

\* The values held by the Kalman object at reference o.
ValuesOf(o) == [f \in Fields |-> arrs[objs[o][f]]]

\* copy.copy: a new object whose fields are the same references (not what
\* record does).
shallowcopy(o) ==
    [ref |-> Len(objs) + 1, objs |-> Append(objs, objs[o]), arrs |-> arrs]

\* Line 55, deepcopy(self.kalman): a new Kalman object whose fields are new
\* references holding copies of the values. Gives the reference and the heaps.
deepcopy(o) ==
    LET a == Len(arrs)
    IN  [ref  |-> Len(objs) + 1,
         objs |-> Append(objs, [position |-> a + 1, attitude |-> a + 2,
                                innovation |-> a + 3]),
         arrs |-> arrs \o <<arrs[objs[o].position], arrs[objs[o].attitude],
                            arrs[objs[o].innovation]>>]

HasKey(d, ts) == \E k \in 1..Len(d) : d[k].ts = ts

\* A store that keeps the first value written for a key (not what record does).
DictSetDefault(d, ts, ref) ==
    IF HasKey(d, ts) THEN d ELSE Append(d, [ts |-> ts, ref |-> ref])

\* A store that moves a key it holds to the end when it is assigned again (not
\* what a dict does).
DictSetMoveToEnd(d, ts, ref) ==
    Append(SelectSeq(d, LAMBDA e : e.ts # ts), [ts |-> ts, ref |-> ref])

\* Line 55, self.kalman_record[ts] = ...: a dict keeps its keys in the order
\* they were first inserted; assigning to a key it holds replaces the value
\* where it is.
DictSet(d, ts, ref) ==
    IF HasKey(d, ts)
    THEN [k \in 1..Len(d) |-> IF d[k].ts = ts THEN [ts |-> ts, ref |-> ref] ELSE d[k]]
    ELSE Append(d, [ts |-> ts, ref |-> ref])

\* Line 53-55: record(ts).
record(ts) ==
    /\ Len(objs) - 1 < MaxRecords
    /\ LET c == deepcopy(KalmanRef)
       IN  /\ objs' = c.objs
           /\ arrs' = c.arrs
           /\ kalman_record' = DictSet(kalman_record, ts, c.ref)
    /\ positions_out' = Pending
    /\ attitude_out' = Pending
    /\ written' = [k \in DOMAIN written \cup {ts} |->
                       IF k = ts THEN ValuesOf(KalmanRef) ELSE written[k]]
    /\ first_seen' = IF \E k \in 1..Len(first_seen) : first_seen[k] = ts
                     THEN first_seen ELSE Append(first_seen, ts)
    /\ UNCHANGED nmut
    /\ UNCHANGED <<intVars, rbdVars, llaVars>>

\* The estimator changes a field's value where it is (position += dx).
MutateInPlace(f, v) ==
    /\ nmut < MaxMutations
    /\ arrs[objs[KalmanRef][f]] # v
    /\ arrs' = [arrs EXCEPT ![objs[KalmanRef][f]] = v]
    /\ nmut' = nmut + 1
    /\ UNCHANGED <<objs, kalman_record, positions_out, attitude_out, written, first_seen>>
    /\ UNCHANGED <<intVars, rbdVars, llaVars>>

\* The estimator binds a field to a new value (position = position + dx).
Rebind(f, v) ==
    /\ nmut < MaxMutations
    /\ arrs[objs[KalmanRef][f]] # v
    /\ arrs' = Append(arrs, v)
    /\ objs' = [objs EXCEPT ![KalmanRef][f] = Len(arrs) + 1]
    /\ nmut' = nmut + 1
    /\ UNCHANGED <<kalman_record, positions_out, attitude_out, written, first_seen>>
    /\ UNCHANGED <<intVars, rbdVars, llaVars>>

\* Lines 147 and 151: [kalman.<field> for kalman in self.kalman_record.values()],
\* the field of each stored snapshot in dict order.
values_field(field) ==
    [k \in 1..Len(kalman_record) |-> arrs[objs[kalman_record[k].ref][field]]]

\* get_positions emptying the dict as it reads it (not what the code does).
get_positions_consuming ==
    /\ positions_out' = Returned(values_field("position"))
    /\ kalman_record' = <<>>
    /\ UNCHANGED <<objs, arrs, attitude_out, written, first_seen, nmut>>
    /\ UNCHANGED <<intVars, rbdVars, llaVars>>

\* Line 145-147: get_positions().
get_positions ==
    /\ positions_out' = Returned(values_field("position"))
    /\ UNCHANGED <<objs, arrs, kalman_record, attitude_out, written, first_seen, nmut>>
    /\ UNCHANGED <<intVars, rbdVars, llaVars>>

\* Line 149-151: get_attitude().
get_attitude ==
    /\ attitude_out' = Returned(values_field("attitude"))
    /\ UNCHANGED <<objs, arrs, kalman_record, positions_out, written, first_seen, nmut>>
    /\ UNCHANGED <<intVars, rbdVars, llaVars>>

NextRecorder ==
    \/ \E ts \in Keys : record(ts)
    \/ \E f \in Fields : \E v \in FieldValues[f] : MutateInPlace(f, v)
    \/ \E f \in Fields : \E v \in FieldValues[f] : Rebind(f, v)
    \/ get_positions
    \/ get_attitude

(***************************************************************************)
(* rbd_translate. A numpy array is its shape and its data: a vector has    *)
(* shape (3,), a batch of N vectors shape (N, 3).                          *)
(***************************************************************************)
RbdPositions == {<<1, 2, 3>>, <<0, 1, 0>>}
RbdAttitudes == {RotId, RotZ, RotX}
RbdOffsets == {Zero3, <<1, 0, 0>>}

Vector(v) == [shape |-> <<3>>, data |-> v]
Batch(rows) == [shape |-> <<Len(rows), 3>>, data |-> rows]

\* np.array(rows) of a list of vectors: shape (N, 3), and shape (0,) when the
\* list is empty, for numpy then sees no second dimension.
np_array(rows) == IF Len(rows) = 0 THEN [shape |-> <<0>>, data |-> <<>>] ELSE Batch(rows)

\* Lines 39 and 43 with the outer apply not inverted (not what the code does).
to_car_forward(p, att, trans) == RotApply(att, VecSub(RotApply(att, p, FALSE), trans), FALSE)

\* Lines 39 and 43: att.apply(att.apply(p) - trans, True).
to_car(p, att, trans) == RotApply(att, VecSub(RotApply(att, p, FALSE), trans), TRUE)

\* Line 36-44: rbd_translate(gps_positions, attitudes, trans).
rbd_translate(gps_positions, attitudes, trans) ==
    IF Len(gps_positions.shape) = 1
    THEN Vector(to_car(gps_positions.data, attitudes, trans))
    ELSE np_array([k \in 1..Len(gps_positions.data) |->
                      to_car(gps_positions.data[k], attitudes[k], trans)])

CallRbdTranslate ==
    /\ rbd_out = Pending
    /\ rbd_out' = Returned(rbd_translate(rbd_in.gps_positions, rbd_in.attitudes, rbd_in.trans))
    /\ UNCHANGED <<rbd_in, intVars, recVars, llaVars>>

NextRbd ==
    \/ CallRbdTranslate

(***************************************************************************)
(* ecef2lla. pyproj.transform is a collaborator: its results are kept as   *)
(* terms naming the coordinate and the point it was computed from.         *)
(***************************************************************************)
Coords == {0, 1}

\* A vector of any length, and a batch of rows of any one width.
Array1(v) == [shape |-> <<Len(v)>>, data |-> v]
Array2(rows, w) == [shape |-> <<Len(rows), w>>, data |-> rows]

\* Line 14 and 16: pyproj.transform(ecef, lla, x, y, z) gives (lon, lat, alt).
pyproj_transform(x, y, z) == <<<<"lon", x, y, z>>, <<"lat", x, y, z>>, <<"alt", x, y, z>>>>

IndexError == Raised("IndexError")

\* ecef2lla reading components 1, 2, 3 in place of 0, 1, 2 (not what the code
\* does).
ecef2lla_shifted(pos) ==
    IF Len(pos.shape) = 1
    THEN IF pos.shape[1] < 4 THEN IndexError
         ELSE Returned(Vector(pyproj_transform(pos.data[2], pos.data[3], pos.data[4])))
    ELSE IF pos.shape[2] < 4 THEN IndexError
         ELSE Returned(Batch([k \in 1..Len(pos.data) |->
                  pyproj_transform(pos.data[k][2], pos.data[k][3], pos.data[k][4])]))

\* Line 9-17: ecef2lla(pos). pos[0], pos[1], pos[2] (the first three columns
\* of a batch) are read: an index past the end raises IndexError, and what
\* follows the third component is never read. The list [lon, lat, alt]
\* transposed is a vector, or one row per point.
ecef2lla(pos) ==
    IF Len(pos.shape) = 1
    THEN IF pos.shape[1] < 3 THEN IndexError
         ELSE Returned(Vector(pyproj_transform(pos.data[1], pos.data[2], pos.data[3])))
    ELSE IF pos.shape[2] < 3 THEN IndexError
         ELSE Returned(Batch([k \in 1..Len(pos.data) |->
                  pyproj_transform(pos.data[k][1], pos.data[k][2], pos.data[k][3])]))

CallEcef2lla ==
    /\ lla_out = Pending
    /\ lla_out' = ecef2lla(lla_in)
    /\ UNCHANGED <<lla_in, intVars, recVars, rbdVars>>

NextLla ==
    \/ CallEcef2lla

(***************************************************************************)
(* Specifications: one per component, the other components at rest.        *)
(***************************************************************************)
\* The reader's data is drawn; no get_measured_* call has been made. The
\* recorder is as __init__ (line 48-51) leaves it: an empty dict.
InitIntegrator ==
    /\ times \in SeqsUpTo(Timestamps, MaxN)
    /\ gps_pos0 \in SeedPositions
    /\ gps_att0 \in SeedAttitudes
    /\ aligned = <<>>
    /\ pc = "idle" /\ i = 0 /\ measured_pos = <<>> /\ measured_att = <<>>
    /\ ncalls = 0 /\ ret_att = Pending /\ ret_pos = Pending
    /\ objs = <<[position |-> 1, attitude |-> 2, innovation |-> 3]>>
    /\ arrs = <<<<1, 0, 0>>, RotId, 0>>
    /\ kalman_record = <<>>
    /\ positions_out = Pending /\ attitude_out = Pending
    /\ written = <<>> /\ first_seen = <<>> /\ nmut = 0
    /\ rbd_in = None /\ rbd_out = Pending
    /\ lla_in = None /\ lla_out = Pending

\* Line 48-51: a recorder with an empty dict, holding the live estimator.
InitRecorder ==
    /\ times = <<>> /\ gps_pos0 = Zero3 /\ gps_att0 = RotId /\ aligned = <<>>
    /\ pc = "idle" /\ i = 0 /\ measured_pos = <<>> /\ measured_att = <<>>
    /\ ncalls = 0 /\ ret_att = Pending /\ ret_pos = Pending
    /\ objs = <<[position |-> 1, attitude |-> 2, innovation |-> 3]>>
    /\ arrs = <<<<1, 0, 0>>, RotId, 0>>
    /\ kalman_record = <<>>
    /\ positions_out = Pending /\ attitude_out = Pending
    /\ written = <<>> /\ first_seen = <<>> /\ nmut = 0
    /\ rbd_in = None /\ rbd_out = Pending
    /\ lla_in = None /\ lla_out = Pending

\* The arguments of rbd_translate are drawn: one pair, or parallel sequences.
InitRbd ==
    /\ times = <<>> /\ gps_pos0 = Zero3 /\ gps_att0 = RotId /\ aligned = <<>>
    /\ pc = "idle" /\ i = 0 /\ measured_pos = <<>> /\ measured_att = <<>>
    /\ ncalls = 0 /\ ret_att = Pending /\ ret_pos = Pending
    /\ objs = <<[position |-> 1, attitude |-> 2, innovation |-> 3]>>
    /\ arrs = <<<<1, 0, 0>>, RotId, 0>>
    /\ kalman_record = <<>>
    /\ positions_out = Pending /\ attitude_out = Pending
    /\ written = <<>> /\ first_seen = <<>> /\ nmut = 0
    /\ \E trans \in RbdOffsets :
          \/ \E p \in RbdPositions : \E a \in RbdAttitudes :
                rbd_in = [gps_positions |-> Vector(p), attitudes |-> a, trans |-> trans]
          \/ \E n \in 0..MaxLen :
                \E ps \in [1..n -> RbdPositions] : \E as \in [1..n -> RbdAttitudes] :
                   rbd_in = [gps_positions |-> Batch(ps), attitudes |-> as, trans |-> trans]
    /\ rbd_out = Pending
    /\ lla_in = None /\ lla_out = Pending

\* The argument of ecef2lla is drawn: a vector, or a batch of rows.
InitLla ==
    /\ times = <<>> /\ gps_pos0 = Zero3 /\ gps_att0 = RotId /\ aligned = <<>>
    /\ pc = "idle" /\ i = 0 /\ measured_pos = <<>> /\ measured_att = <<>>
    /\ ncalls = 0 /\ ret_att = Pending /\ ret_pos = Pending
    /\ objs = <<[position |-> 1, attitude |-> 2, innovation |-> 3]>>
    /\ arrs = <<<<1, 0, 0>>, RotId, 0>>
    /\ kalman_record = <<>>
    /\ positions_out = Pending /\ attitude_out = Pending
    /\ written = <<>> /\ first_seen = <<>> /\ nmut = 0
    /\ rbd_in = None /\ rbd_out = Pending
    /\ \E w \in 0..MaxDim :
          \/ \E v \in [1..w -> Coords] : lla_in = Array1(v)
          \/ \E n \in 1..MaxRows : \E rows \in [1..n -> [1..w -> Coords]] :
                lla_in = Array2(rows, w)
    /\ lla_out = Pending

SpecRbd == InitRbd /\ [][NextRbd]_vars

SpecLla == InitLla /\ [][NextLla]_vars

SpecIntegrator == InitIntegrator /\ [][NextIntegrator]_vars

SpecRecorder == InitRecorder /\ [][NextRecorder]_vars

(***************************************************************************)
(* The claims about the pose integration, checked under SpecIntegrator.    *)
(***************************************************************************)
\* What the aligner returned for step k of the sequence (k in 2..N, counting
\* the timestamps from 1): frame(times[k]) aligned to frame(times[k-1]).
TransformationAt(k) == aligned[<<times[k], times[k - 1]>>]

InPositions == pc \in {"pos_loop", "pos_done"}
InAttitude == pc \in {"att_loop", "att_done"}

\* C1 as stated: every position of get_measured_positions after the first is
\* the previous position plus the translation rotated by the forward
\* application of the previous attitude.
C1_ForwardApplication ==
    InPositions =>
        \A k \in 2..Len(measured_pos) :
            measured_pos[k] = VecAdd(measured_pos[k - 1],
                                 RotApply(measured_att[k - 1], TransformationAt(k)[1], FALSE))

\* C1 amended: every position of get_measured_positions after the first is the
\* previous position plus the translation rotated by the INVERSE application of
\* the previous attitude (apply(translation, True)), and the positions returned
\* are these.
C1_InverseApplication ==
    /\ InPositions =>
          \A k \in 2..Len(measured_pos) :
              measured_pos[k] = VecAdd(measured_pos[k - 1],
                                   RotApply(measured_att[k - 1], TransformationAt(k)[1], TRUE))
    /\ pc = "pos_done" => ret_pos = Returned(measured_pos)

\* A call of get_measured_positions over three timestamps has returned, and at
\* some step the forward and the inverse application differ.
C1_Witness ==
    /\ pc = "pos_done"
    /\ Len(times) = 3
    /\ Len(ret_pos.value) = 3
    /\ \E k \in 2..3 :
          RotApply(measured_att[k - 1], TransformationAt(k)[1], TRUE)
              # RotApply(measured_att[k - 1], TransformationAt(k)[1], FALSE)

\* C2: every attitude after the first, in get_measured_attitude and in the
\* chain inside get_measured_positions, is the previous attitude composed on
\* the right with the rotation the aligner returned for that step; and
\* get_measured_attitude returns that chain.
C2_RightComposition ==
    /\ (InAttitude \/ InPositions) =>
          \A k \in 2..Len(measured_att) :
              measured_att[k] = RotMul(measured_att[k - 1], TransformationAt(k)[2])
    /\ InPositions => Len(measured_att) = Len(measured_pos)
    /\ pc = "att_done" => ret_att = Returned(measured_att)

\* get_measured_attitude has returned three attitudes, and at some step the
\* previous attitude and the increment do not commute.
C2_Witness ==
    /\ pc = "att_done"
    /\ Len(ret_att.value) = 3
    /\ \E k \in 2..3 :
          RotMul(measured_att[k - 1], TransformationAt(k)[2])
              # RotMul(TransformationAt(k)[2], measured_att[k - 1])

Finished == pc \in {"att_done", "pos_done"}
ResultOfCall == IF pc = "att_done" THEN ret_att ELSE ret_pos

\* C6 as stated: a call over timestamps that are not strictly increasing ends
\* in an error and returns no trajectory.
C6_OrderingError ==
    (Finished /\ ~StrictlyIncreasing(times)) => ResultOfCall.state = "raised"

\* C6 amended: a call over timestamps that are not strictly increasing raises
\* no error: it returns a trajectory of one pose per timestamp, after aligning
\* each timestamp to the one before it in the order given.
C6_NoOrderingCheck ==
    (Finished /\ ~StrictlyIncreasing(times)) =>
        /\ ResultOfCall.state = "returned"
        /\ Len(ResultOfCall.value) = Len(times)
        /\ ncalls = Len(times) - 1
        /\ \A k \in 2..Len(times) : <<times[k], times[k - 1]>> \in DOMAIN aligned

\* get_measured_positions has returned over three timestamps that go back in
\* time.
C6_Witness ==
    /\ pc = "pos_done"
    /\ Len(times) = 3
    /\ times[2] < times[1]
    /\ ret_pos.state = "returned"

\* C7: element 0 of what either call returns is the seed (the reader's first
\* position, first attitude); over at most one timestamp the call returns the
\* seed alone and never calls the aligner.
C7_SeedOnly ==
    /\ pc = "att_done" =>
          /\ ret_att.state = "returned"
          /\ ret_att.value[1] = gps_att0
          /\ Len(times) <= 1 => (ret_att.value = <<gps_att0>> /\ ncalls = 0)
    /\ pc = "pos_done" =>
          /\ ret_pos.state = "returned"
          /\ ret_pos.value[1] = gps_pos0
          /\ Len(times) <= 1 => (ret_pos.value = <<gps_pos0>> /\ ncalls = 0)

\* Both calls have returned over a single timestamp, get_measured_positions
\* last.
C7_Witness ==
    /\ pc = "pos_done"
    /\ Len(times) = 1
    /\ ret_pos = Returned(<<gps_pos0>>)
    /\ ret_att = Returned(<<gps_att0>>)

(***************************************************************************)
(* The claims about the recorder's store, checked under SpecRecorder.      *)
(***************************************************************************)
RecordedKeys == DOMAIN written

\* The recorded timestamps in ascending order.
AscendingKeys ==
    CHOOSE s \in [1..Cardinality(RecordedKeys) -> RecordedKeys] :
        \A a, b \in 1..Cardinality(RecordedKeys) : a < b => s[a] < s[b]

\* The field of the values last recorded at each timestamp of a sequence.
RecordedAlong(keys, field) == [k \in 1..Len(keys) |-> written[keys[k]][field]]

\* C3 as stated: get_positions and get_attitude return the snapshots' values by
\* ascending timestamp.
C3_AscendingOrder ==
    /\ positions_out.state = "returned" =>
          positions_out.value = RecordedAlong(AscendingKeys, "position")
    /\ attitude_out.state = "returned" =>
          attitude_out.value = RecordedAlong(AscendingKeys, "attitude")

\* C3 amended: get_positions and get_attitude return the snapshots' values in
\* the order in which each timestamp was FIRST recorded (the dict's order),
\* whatever the timestamps are; recording a timestamp again does not move it.
C3_InsertionOrder ==
    /\ positions_out.state = "returned" =>
          positions_out.value = RecordedAlong(first_seen, "position")
    /\ attitude_out.state = "returned" =>
          attitude_out.value = RecordedAlong(first_seen, "attitude")

\* Timestamps 3, 1, 2 were recorded in that order, and get_positions has
\* returned values that are not in ascending timestamp order.
C3_Witness ==
    /\ first_seen = <<3, 1, 2>>
    /\ positions_out.state = "returned"
    /\ Len(positions_out.value) = 3
    /\ positions_out.value # RecordedAlong(AscendingKeys, "position")

\* C4: the store holds one snapshot per timestamp recorded, which holds the
\* estimator's values at the last record of that timestamp, and get_positions
\* returns one entry per timestamp, the position last recorded for it.
C4_LastWriteWins ==
    /\ \A a, b \in 1..Len(kalman_record) :
          kalman_record[a].ts = kalman_record[b].ts => a = b
    /\ {kalman_record[k].ts : k \in 1..Len(kalman_record)} = RecordedKeys
    /\ \A k \in 1..Len(kalman_record) :
          ValuesOf(kalman_record[k].ref).position = written[kalman_record[k].ts].position
    /\ positions_out.state = "returned" =>
          /\ Len(positions_out.value) = Cardinality(RecordedKeys)
          /\ \A k \in 1..Len(kalman_record) :
                positions_out.value[k] = written[kalman_record[k].ts].position

\* One timestamp was recorded twice, with different positions of the estimator,
\* and get_positions has returned.
C4_Witness ==
    /\ Len(first_seen) = 1
    /\ Len(objs) = 3
    /\ ValuesOf(2).position # ValuesOf(3).position
    /\ positions_out.state = "returned"
    /\ Len(positions_out.value) = 1

\* C5: every stored snapshot holds, in every field, the values the estimator
\* had when its timestamp was last recorded, whatever the estimator did since
\* and whatever was recorded at other timestamps; and it shares no field
\* reference with the live estimator.
C5_IndependentCopy ==
    \A k \in 1..Len(kalman_record) :
        /\ ValuesOf(kalman_record[k].ref) = written[kalman_record[k].ts]
        /\ kalman_record[k].ref # KalmanRef
        /\ \A f, g \in Fields : objs[kalman_record[k].ref][f] # objs[KalmanRef][g]

\* Two timestamps are stored, the estimator was mutated after the first was
\* recorded, and the first snapshot differs from the live estimator.
C5_Witness ==
    /\ Len(kalman_record) = 2
    /\ nmut > 0
    /\ ValuesOf(kalman_record[1].ref) # ValuesOf(KalmanRef)
    /\ ValuesOf(kalman_record[1].ref) # ValuesOf(kalman_record[2].ref)

GetterReturned ==
    \/ positions_out' # positions_out /\ positions_out'.state = "returned"
    \/ attitude_out' # attitude_out /\ attitude_out'.state = "returned"

\* C10: a step in which get_positions or get_attitude returns leaves the store
\* and the heap unchanged; what either returned since the last record is what
\* it would return now; and the two have one entry per recorded timestamp,
\* entry k of each from the k-th snapshot of the store.
C10_ReadOnly ==
    /\ [][GetterReturned => UNCHANGED <<objs, arrs, kalman_record>>]_vars
    /\ [](/\ positions_out.state = "returned" =>
                positions_out.value = values_field("position")
          /\ attitude_out.state = "returned" =>
                attitude_out.value = values_field("attitude")
          /\ \A k \in 1..Len(kalman_record) :
                /\ positions_out.state = "returned" =>
                      positions_out.value[k] = ValuesOf(kalman_record[k].ref).position
                /\ attitude_out.state = "returned" =>
                      attitude_out.value[k] = ValuesOf(kalman_record[k].ref).attitude
          /\ (positions_out.state = "returned" /\ attitude_out.state = "returned") =>
                /\ Len(positions_out.value) = Len(attitude_out.value)
                /\ Len(positions_out.value) = Cardinality(RecordedKeys))

\* Both getters have returned over two snapshots, and the estimator was mutated
\* since the first record.
C10_Witness ==
    /\ positions_out.state = "returned"
    /\ attitude_out.state = "returned"
    /\ Len(positions_out.value) = 2
    /\ nmut > 0
    /\ ValuesOf(kalman_record[1].ref) # ValuesOf(kalman_record[2].ref)

(***************************************************************************)
(* The claim about rbd_translate, checked under SpecRbd.                   *)
(***************************************************************************)
ZeroOffsetCall == rbd_out.state = "returned" /\ rbd_in.trans = Zero3

\* C8 as stated: with a zero offset the output is the input positions, data and
\* shape, for one pair and for parallel sequences.
C8_ZeroOffsetIdentity ==
    ZeroOffsetCall => rbd_out.value = rbd_in.gps_positions

\* C8 amended: with a zero offset the output is the input positions, data and
\* shape, for one pair and for parallel sequences of at least one element; for
\* empty sequences (an input of shape (0, 3)) the output is the empty array of
\* shape (0,).
C8_ZeroOffsetIdentityNonEmpty ==
    ZeroOffsetCall =>
        IF rbd_in.gps_positions.shape = <<0, 3>>
        THEN rbd_out.value = [shape |-> <<0>>, data |-> <<>>]
        ELSE rbd_out.value = rbd_in.gps_positions

\* rbd_translate has returned for two positions with a zero offset, the first
\* attitude a quarter turn.
C8_Witness ==
    /\ ZeroOffsetCall
    /\ rbd_in.gps_positions.shape = <<2, 3>>
    /\ rbd_in.attitudes[1] = RotZ
    /\ rbd_in.gps_positions.data[1] = <<1, 2, 3>>

(***************************************************************************)
(* The claim about ecef2lla, checked under SpecLla.                        *)
(***************************************************************************)
\* The length of the vector, or of each row of the batch.
Width == lla_in.shape[Len(lla_in.shape)]

\* The first three components of a vector, or of each row.
FirstThree ==
    IF Len(lla_in.shape) = 1
    THEN Array1(SubSeq(lla_in.data, 1, 3))
    ELSE Array2([k \in 1..Len(lla_in.data) |-> SubSeq(lla_in.data[k], 1, 3)], 3)

\* C9 as stated: a vector, or rows, of a length other than 3 make ecef2lla
\* fail.
C9_RejectsOtherLengths ==
    (lla_out # Pending /\ Width # 3) => lla_out.state = "raised"

\* C9 amended: a vector, or rows, shorter than 3 make ecef2lla fail (with an
\* index error); longer than 3, ecef2lla returns what it returns for the first
\* three components alone: it truncates silently.
C9_TruncatesLonger ==
    lla_out # Pending =>
        /\ Width < 3 => lla_out = Raised("IndexError")
        /\ Width >= 3 => (lla_out.state = "returned" /\ lla_out = ecef2lla(FirstThree))
        /\ (Width >= 3 /\ Len(lla_in.shape) = 1) =>
              lla_out.value.data = pyproj_transform(lla_in.data[1], lla_in.data[2],
                                                    lla_in.data[3])
        /\ Width = 3 => lla_out.value.shape = lla_in.shape

\* ecef2lla has returned for a vector of four components, the fourth not zero.
C9_Witness ==
    /\ lla_out.state = "returned"
    /\ lla_in.shape = <<4>>
    /\ lla_in.data[4] = 1

====
